---- MODULE Spec2Model ----
(***************************************************************************)
(* A model of validate.py, the validator of debate format XML files: the   *)
(* cross-reference checker, the multilingual checker, the version checker, *)
(* validate_file and validate_all_files.                                   *)
(*                                                                         *)
(* A parsed document is a record; an element of it is identified by a     *)
(* position (what the code reports as the element's source line).  An     *)
(* error string is a record of the parts the code formats into it.        *)
(***************************************************************************)
EXTENDS Integers, Sequences, FiniteSets, TLC

VARIABLES
    \* validate_all_files and validate_file
    is_dir,         \* formats_dir.is_dir()
    entries,        \* formats_dir.iterdir(): TRUE for an entry with suffix .xml
    git_base_ref,   \* the git_base_ref argument
    idx,            \* number of directory entries the loop has taken
    cur,            \* the file under validation, or NoFile
    stage,          \* position inside validate_file
    errors,         \* errors of the file under validation, so far
    checks_run,     \* the checks started for the file under validation
    successes,      \* list of successes (entry indices)
    failures,       \* list of failures (entry indices)
    pc,             \* position of validate_all_files
    return_code,    \* its return value
    exception,      \* the exception that left validate_all_files, if any
    \* one call of validate_multilingual_element, as made by
    \* validate_multilingual_elements
    ml_languages_element, ml_children, ml_optional, ml_result,
    \* one call of validate_cross_references
    xr_root, xr_result,
    \* one call of validate_version_number
    vn_base_ref, vn_git, vn_result

vars == <<is_dir, entries, git_base_ref, idx, cur, stage, errors, checks_run,
          successes, failures, pc, return_code, exception,
          ml_languages_element, ml_children, ml_optional, ml_result,
          xr_root, xr_result, vn_base_ref, vn_git, vn_result>>

all_files_vars == <<is_dir, entries, git_base_ref, idx, cur, stage, errors,
                    checks_run, successes, failures, pc, return_code, exception>>
ml_vars == <<ml_languages_element, ml_children, ml_optional, ml_result>>
xr_vars == <<xr_root, xr_result>>
vn_vars == <<vn_base_ref, vn_git, vn_result>>

(***************************************************************************)
(* Bounds.                                                                 *)
(***************************************************************************)
MaxLanguages == 2      \* <language> elements in <languages>
MaxChildren == 3       \* children of one kind in one element
MaxPeriodTypes == 1    \* <period-type> elements
MaxSpeechTypes == 1    \* <speech-type> elements
MaxBells == 1          \* <bell> elements in one speech type
MaxSpeeches == 1       \* <speech> elements
MaxVersion == 3        \* the largest version number
MaxEntries == 3        \* entries of the formats directory
MaxSchemaErrors == 2   \* entries of validator.error_log

(***************************************************************************)
(* Values.                                                                 *)
(***************************************************************************)
\* Python's None, as the value of an attribute that is not set.
None == "<None>"

\* A function's outcome: it returns a list of errors or it raises.
Pending == [outcome |-> "pending"]
Return(errs) == [outcome |-> "return", errors |-> errs]
Raise(exc) == [outcome |-> "raise", exc |-> exc]

\* The element at a position: `node` i (j-th bell of speech type i), or the
\* k-th `sub` child of it.
Pos(node, i, j) == [node |-> node, i |-> i, j |-> j, sub |-> "", k |-> 0]
Child(at, sub, k) == [at EXCEPT !.sub = sub, !.k = k]
RootPos == Pos("debate-format", 0, 0)

\* f"{Kind} error in {filename}, line {at}: {message} {what} {value!r}"
Error(kind, at, message, what, value) ==
    [kind |-> kind, at |-> at, message |-> message, what |-> what, value |-> value]

InList(x, list) == \E i \in 1..Len(list) : list[i] = x

\* All sequences over S of length at most n.
SeqsUpTo(S, n) == UNION {[1..m -> S] : m \in 0..n}

(***************************************************************************)
(* validate_multilingual_element                                           *)
(***************************************************************************)
\* The truth value of child.get(LANG_ATTR): None and "" are false.
Truthy(v) == v # None /\ v # ""

add_error(at, message, what, value) ==
    <<Error("Multilingual", at, message, what, value)>>

\* The loop over the children when no languages are declared; a child is
\* its xml:lang attribute value.
RECURSIVE LangAttrErrors(_, _, _, _)
LangAttrErrors(children, k, at, subelement) ==
    IF k > Len(children) THEN <<>>
    ELSE (IF Truthy(children[k])
          THEN add_error(Child(at, subelement, k), "lang-but-no-languages",
                         subelement, None)
          ELSE <<>>)
         \o LangAttrErrors(children, k + 1, at, subelement)

\* The loop over the children when languages are declared; `found` is the
\* set of keys of the dict found whose value is True.
RECURSIVE FoundErrors(_, _, _, _, _, _)
FoundErrors(languages, children, k, found, at, subelement) ==
    IF k > Len(children) THEN <<>>
    ELSE LET language == children[k]
             el == Child(at, subelement, k)
         IN (IF language = None
             THEN add_error(el, "lang-not-specified", subelement, None)
             ELSE IF ~InList(language, languages)
             THEN add_error(el, "lang-not-declared", subelement, language)
             ELSE IF language \in found
             THEN add_error(el, "lang-found-multiple-times", subelement, language)
             ELSE <<>>)
            \o FoundErrors(languages, children, k + 1, found \cup {language},
                           at, subelement)

\* found, after the loop over the children.
FoundAfter(children) == {children[k] : k \in 1..Len(children)}

\* The loop over the declared languages.
RECURSIVE NoTranslationErrors(_, _, _, _, _)
NoTranslationErrors(languages, i, found, at, subelement) ==
    IF i > Len(languages) THEN <<>>
    ELSE (IF languages[i] \notin found
          THEN add_error(at, "no-translation", subelement, languages[i])
          ELSE <<>>)
         \o NoTranslationErrors(languages, i + 1, found, at, subelement)

\* languages is [is_none |-> TRUE] or [is_none |-> FALSE, list |-> ...].
validate_multilingual_element(languages, at, children, subelement, optional) ==
    IF Len(children) = 0 /\ optional THEN <<>>
    ELSE IF languages.is_none
    THEN (IF Len(children) > 1
          THEN add_error(Child(at, subelement, 2), "multiple-but-no-languages",
                         subelement, None)
          ELSE <<>>)
         \o LangAttrErrors(children, 1, at, subelement)
    ELSE FoundErrors(languages.list, children, 1, {}, at, subelement)
         \o NoTranslationErrors(languages.list, 1, FoundAfter(children),
                                at, subelement)

\* languages, as validate_multilingual_elements computes it from the
\* <languages> element: [present |-> FALSE] or
\* [present |-> TRUE, language |-> the texts of its <language> children].
LanguagesOf(languages_element) ==
    IF languages_element.present
    THEN [is_none |-> FALSE, list |-> languages_element.language]
    ELSE [is_none |-> TRUE]

(***************************************************************************)
(* The document.                                                           *)
(*   root.languages    [present |-> FALSE] or [present |-> TRUE,           *)
(*                     language |-> <<text, ...>>]                         *)
(*   root.name, root.short_name, root.info                                 *)
(*                     the children of that kind, each its xml:lang        *)
(*   root.period_types [present, period_type |-> <<[ref, name, display]>>] *)
(*   root.speech_types <<[ref, first_period, bell |-> <<next-period, ...>>,*)
(*                     name], ...>>                                        *)
(*   root.speeches     <<[type, name], ...>>                               *)
(***************************************************************************)

\* get_period_type_elements
get_period_type_elements(root) ==
    IF ~root.period_types.present THEN <<>>
    ELSE root.period_types.period_type

(***************************************************************************)
(* validate_cross_references                                               *)
(***************************************************************************)
validate_attribute_xref(at, value, attribute, allowed_values) ==
    IF ~InList(value, allowed_values)
    THEN <<Error("Cross-ref", at, "unknown", attribute, value)>>
    ELSE <<>>

\* period_types without the extend by the custom period types.
period_types_builtin(root) ==
    <<"normal", "pois-allowed", "warning", "overtime", None>>

\* The list period_types of validate_cross_references.
period_types(root) ==
    <<"normal", "pois-allowed", "warning", "overtime", None>>
    \o [i \in 1..Len(get_period_type_elements(root)) |->
            get_period_type_elements(root)[i].ref]

\* speech_types that goes on from period_types instead of a new list.
speech_types_after_period_types(root) ==
    period_types(root)
    \o [i \in 1..Len(root.speech_types) |-> root.speech_types[i].ref]

\* The list speech_types of validate_cross_references.
speech_types(root) ==
    [i \in 1..Len(root.speech_types) |-> root.speech_types[i].ref]

\* The loop over the bells of speech type i.
RECURSIVE BellXrefs(_, _, _)
BellXrefs(root, i, j) ==
    IF j > Len(root.speech_types[i].bell) THEN <<>>
    ELSE validate_attribute_xref(Pos("bell", i, j), root.speech_types[i].bell[j],
                                 "next-period", period_types(root))
         \o BellXrefs(root, i, j + 1)

\* The loop over the speech types.
RECURSIVE SpeechTypeXrefs(_, _)
SpeechTypeXrefs(root, i) ==
    IF i > Len(root.speech_types) THEN <<>>
    ELSE validate_attribute_xref(Pos("speech-type", i, 0),
                                 root.speech_types[i].first_period,
                                 "first-period", period_types(root))
         \o BellXrefs(root, i, 1)
         \o SpeechTypeXrefs(root, i + 1)

\* The loop over the speeches.
RECURSIVE SpeechXrefs(_, _)
SpeechXrefs(root, i) ==
    IF i > Len(root.speeches) THEN <<>>
    ELSE validate_attribute_xref(Pos("speech", i, 0), root.speeches[i].type,
                                 "type", speech_types(root))
         \o SpeechXrefs(root, i + 1)

validate_cross_references(root) ==
    SpeechTypeXrefs(root, 1) \o SpeechXrefs(root, 1)

(***************************************************************************)
(* validate_multilingual_elements                                          *)
(***************************************************************************)
RECURSIVE PeriodTypeMultilingual(_, _, _)
PeriodTypeMultilingual(root, languages, i) ==
    IF i > Len(get_period_type_elements(root)) THEN <<>>
    ELSE validate_multilingual_element(languages, Pos("period-type", i, 0),
             get_period_type_elements(root)[i].name, "name", FALSE)
         \o validate_multilingual_element(languages, Pos("period-type", i, 0),
             get_period_type_elements(root)[i].display, "display", FALSE)
         \o PeriodTypeMultilingual(root, languages, i + 1)

RECURSIVE SpeechTypeMultilingual(_, _, _)
SpeechTypeMultilingual(root, languages, i) ==
    IF i > Len(root.speech_types) THEN <<>>
    ELSE validate_multilingual_element(languages, Pos("speech-type", i, 0),
             root.speech_types[i].name, "name", TRUE)
         \o SpeechTypeMultilingual(root, languages, i + 1)

RECURSIVE SpeechMultilingual(_, _, _)
SpeechMultilingual(root, languages, i) ==
    IF i > Len(root.speeches) THEN <<>>
    ELSE validate_multilingual_element(languages, Pos("speech", i, 0),
             root.speeches[i].name, "name", FALSE)
         \o SpeechMultilingual(root, languages, i + 1)

validate_multilingual_elements(root) ==
    LET languages == LanguagesOf(root.languages)
    IN validate_multilingual_element(languages, RootPos, root.name, "name", FALSE)
       \o validate_multilingual_element(languages, RootPos, root.short_name,
                                        "short-name", TRUE)
       \o validate_multilingual_element(languages, RootPos, root.info, "info", FALSE)
       \o PeriodTypeMultilingual(root, languages, 1)
       \o SpeechTypeMultilingual(root, languages, 1)
       \o SpeechMultilingual(root, languages, 1)

(***************************************************************************)
(* validate_version_number                                                 *)
(*   A <version> is IntText(n), or NotInt(what) with what one of           *)
(*   "no-element" (find returns None), "no-text" (text is None),           *)
(*   "not-an-integer".                                                      *)
(*   git.diff         "fails", "unchanged" or "changed": git diff          *)
(*   git.new_version  the <version> of the file at `path`                  *)
(*   git.show         [ok |-> FALSE, exc |-> ...] or                       *)
(*                    [ok |-> TRUE, version |-> ...]: git show and the     *)
(*                    parse of its output                                  *)
(***************************************************************************)
IntText(n) == [int |-> TRUE, val |-> n]
NotInt(what) == [int |-> FALSE, what |-> what]

\* The exception int(root.find("version").text) raises.
IntException(version) ==
    CASE version.what = "no-element" -> "AttributeError"
      [] version.what = "no-text" -> "TypeError"
      [] OTHER -> "ValueError"

\* except (subprocess.CalledProcessError, etree.XMLSyntaxError, ValueError)
Caught(exc) == exc \in {"CalledProcessError", "XMLSyntaxError", "ValueError"}

\* The try block: its value, or the exception it raises.
OriginalVersion(show) ==
    IF ~show.ok THEN [raised |-> TRUE, exc |-> show.exc]
    ELSE IF ~show.version.int
    THEN [raised |-> TRUE, exc |-> IntException(show.version)]
    ELSE [raised |-> FALSE, val |-> show.version.val]

\* The comparison with < for <=.
CompareVersionsLess(new_version, original_version) ==
    IF new_version < original_version
    THEN <<[kind |-> "Version", expected |-> original_version + 1,
            found |-> new_version]>>
    ELSE <<>>

\* if new_version <= original_version: ... return []
CompareVersions(new_version, original_version) ==
    IF new_version <= original_version
    THEN <<[kind |-> "Version", expected |-> original_version + 1,
            found |-> new_version]>>
    ELSE <<>>

validate_version_number(base_ref, git) ==
    IF ~Truthy(base_ref) THEN Return(<<>>)
    ELSE IF git.diff = "fails" THEN Raise("CalledProcessError")
    ELSE IF git.diff = "unchanged" THEN Return(<<>>)
    ELSE IF ~git.new_version.int THEN Raise(IntException(git.new_version))
    ELSE LET original == OriginalVersion(git.show)
         IN IF original.raised
            THEN (IF Caught(original.exc)
                  THEN Return(<<[kind |-> "OriginalVersion",
                                 cause |-> original.exc]>>)
                  ELSE Raise(original.exc))
            ELSE Return(CompareVersions(git.new_version.val, original.val))

(***************************************************************************)
(* The inputs.                                                             *)
(***************************************************************************)
\* The texts of <language> elements, and the xml:lang values of children:
\* unset, empty, declared or not.
Languages == {"en", "fr"}
LangAttrs == {None, "", "en", "fr", "de"}

LanguagesElements ==
    {[present |-> FALSE]}
    \cup {[present |-> TRUE, language |-> l] : l \in SeqsUpTo(Languages, MaxLanguages)}

\* The values of first-period, of next-period and of type, and the refs.
FirstPeriods == {None, "normal", "pois-allowed", "warning", "overtime", "pt1", "st1"}
NextPeriods == {None, "overtime", "pt1", "st1"}
SpeechTypeRefs == {"st1", "normal"}
Types == {None, "st1", "normal", "pt1"}

PeriodTypesElements ==
    {[present |-> FALSE]}
    \cup {[present |-> TRUE, period_type |-> p] :
             p \in SeqsUpTo({[ref |-> "pt1", name |-> <<None>>, display |-> <<None>>]},
                            MaxPeriodTypes)}

\* A document without languages whose names are single and untagged.
PlainRoot(pts, sts, sps) ==
    [languages |-> [present |-> FALSE], name |-> <<None>>, short_name |-> <<>>,
     info |-> <<None>>, period_types |-> pts, speech_types |-> sts, speeches |-> sps]

SpeechType(ref, first_period, bell) ==
    [ref |-> ref, first_period |-> first_period, bell |-> bell, name |-> <<>>]
Speech(type) == [type |-> type, name |-> <<None>>]

\* Documents that vary in their period references ...
PeriodRoots ==
    {PlainRoot(pts, sts, sps) :
        pts \in PeriodTypesElements,
        sts \in SeqsUpTo({SpeechType("st1", f, b) :
                             f \in FirstPeriods, b \in SeqsUpTo(NextPeriods, MaxBells)},
                         MaxSpeechTypes),
        sps \in {<<>>, <<Speech("st1")>>, <<Speech("pt1")>>}}

\* ... and documents that vary in their speech-type references.
SpeechRoots ==
    {PlainRoot(pts, sts, sps) :
        pts \in PeriodTypesElements,
        sts \in SeqsUpTo({SpeechType(r, "normal", <<>>) : r \in SpeechTypeRefs},
                         MaxSpeechTypes),
        sps \in SeqsUpTo({Speech(t) : t \in Types}, MaxSpeeches)}

Versions ==
    {IntText(n) : n \in 0..MaxVersion}
    \cup {NotInt(w) : w \in {"no-element", "no-text", "not-an-integer"}}

Shows ==
    {[ok |-> FALSE, exc |-> e] : e \in {"CalledProcessError", "XMLSyntaxError"}}
    \cup {[ok |-> TRUE, version |-> v] : v \in Versions}

Gits == [diff : {"fails", "unchanged", "changed"}, new_version : Versions, show : Shows]

BaseRefs == {None, "", "origin/main"}

(***************************************************************************)
(* One call of each checker.                                               *)
(***************************************************************************)
NoFile == [file |-> FALSE]

AllFilesIdle ==
    /\ is_dir = FALSE /\ entries = <<>> /\ git_base_ref = None /\ idx = 0
    /\ cur = NoFile /\ stage = "none" /\ errors = <<>> /\ checks_run = <<>>
    /\ successes = <<>> /\ failures = <<>> /\ pc = "idle" /\ return_code = -1
    /\ exception = None

MultilingualIdle ==
    /\ ml_languages_element = [present |-> FALSE] /\ ml_children = <<>>
    /\ ml_optional = FALSE /\ ml_result = Pending

CrossReferencesIdle ==
    /\ xr_root = PlainRoot([present |-> FALSE], <<>>, <<>>) /\ xr_result = Pending

VersionIdle ==
    /\ vn_base_ref = None
    /\ vn_git = [diff |-> "unchanged", new_version |-> IntText(0),
                 show |-> [ok |-> TRUE, version |-> IntText(0)]]
    /\ vn_result = Pending

\* validate_multilingual_elements on the <name> children of the root.
MultilingualInit ==
    /\ ml_languages_element \in LanguagesElements
    /\ ml_children \in SeqsUpTo(LangAttrs, MaxChildren)
    /\ ml_optional \in BOOLEAN
    /\ ml_result = Pending
    /\ AllFilesIdle /\ CrossReferencesIdle /\ VersionIdle

MultilingualElement ==
    /\ ml_result = Pending
    /\ ml_result' = Return(validate_multilingual_element(
                        LanguagesOf(ml_languages_element), RootPos, ml_children,
                        "name", ml_optional))
    /\ UNCHANGED <<ml_languages_element, ml_children, ml_optional>>
    /\ UNCHANGED <<all_files_vars, xr_vars, vn_vars>>

SpecMultilingual == MultilingualInit /\ [][MultilingualElement]_vars

CrossReferencesInit ==
    /\ xr_root \in PeriodRoots \cup SpeechRoots
    /\ xr_result = Pending
    /\ AllFilesIdle /\ MultilingualIdle /\ VersionIdle

CrossReferences ==
    /\ xr_result = Pending
    /\ xr_result' = Return(validate_cross_references(xr_root))
    /\ UNCHANGED <<xr_root, all_files_vars, ml_vars, vn_vars>>

SpecCrossReferences == CrossReferencesInit /\ [][CrossReferences]_vars

VersionInit ==
    /\ vn_base_ref \in BaseRefs
    /\ vn_git \in Gits
    /\ vn_result = Pending
    /\ AllFilesIdle /\ MultilingualIdle /\ CrossReferencesIdle

VersionNumber ==
    /\ vn_result = Pending
    /\ vn_result' = validate_version_number(vn_base_ref, vn_git)
    /\ UNCHANGED <<vn_base_ref, vn_git, all_files_vars, ml_vars, xr_vars>>

SpecVersion == VersionInit /\ [][VersionNumber]_vars

(***************************************************************************)
(* validate_all_files and validate_file.                                   *)
(*   A file is [wellformed, schema_errors, root, git]: whether etree.parse *)
(*   accepts it, the length of validator.error_log, the parsed document    *)
(*   and what git answers about it.                                        *)
(***************************************************************************)
\* A document with one custom period type, one speech type with one bell
\* and one speech; every name has the children nm.
FileRoot(languages_element, nm, first_period, type) ==
    [languages |-> languages_element, name |-> nm, short_name |-> <<>>, info |-> nm,
     period_types |-> [present |-> TRUE,
                       period_type |-> <<[ref |-> "pt1", name |-> nm, display |-> nm]>>],
     speech_types |-> <<[ref |-> "st1", first_period |-> first_period,
                         bell |-> <<"pt1">>, name |-> <<>>]>>,
     speeches |-> <<[type |-> type, name |-> nm]>>]

FileRoots ==
    {FileRoot(l, nm, f, t) :
        l \in {[present |-> FALSE], [present |-> TRUE, language |-> <<"en">>]},
        nm \in {<<None>>, <<"en">>}, f \in {"normal", "st1"}, t \in {"st1", "pt1"}}

\* git show is asked only about a changed file.
FileGits ==
    {g \in Gits : /\ g.new_version = IntText(1)
                  /\ g.diff # "changed" => g.show = [ok |-> TRUE, version |-> IntText(1)]}

AnyRoot == FileRoot([present |-> FALSE], <<None>>, "normal", "st1")
AnyGit == [diff |-> "unchanged", new_version |-> IntText(1),
           show |-> [ok |-> TRUE, version |-> IntText(1)]]

Files ==
    {[file |-> TRUE, wellformed |-> FALSE, schema_errors |-> 0,
      root |-> AnyRoot, git |-> AnyGit]}
    \cup {[file |-> TRUE, wellformed |-> TRUE, schema_errors |-> n,
           root |-> AnyRoot, git |-> AnyGit] : n \in 1..MaxSchemaErrors}
    \cup {[file |-> TRUE, wellformed |-> TRUE, schema_errors |-> 0,
           root |-> r, git |-> g] : r \in FileRoots, g \in FileGits}

Init ==
    /\ is_dir \in BOOLEAN
    /\ entries \in SeqsUpTo(BOOLEAN, MaxEntries)
    /\ ~is_dir => entries = <<>>
    /\ git_base_ref \in {None, "origin/main"}
    /\ idx = 0 /\ cur = NoFile /\ stage = "none"
    /\ errors = <<>> /\ checks_run = <<>>
    /\ successes = <<>> /\ failures = <<>>
    /\ pc = "start" /\ return_code = -1 /\ exception = None
    /\ MultilingualIdle /\ CrossReferencesIdle /\ VersionIdle

other_vars == <<ml_vars, xr_vars, vn_vars>>

\* if not formats_dir.is_dir(): ... return 1
NotADirectory ==
    /\ pc = "start" /\ ~is_dir
    /\ pc' = "done" /\ return_code' = 1
    /\ UNCHANGED <<is_dir, entries, git_base_ref, idx, cur, stage, errors,
                   checks_run, successes, failures, exception, other_vars>>

EnterLoop ==
    /\ pc = "start" /\ is_dir
    /\ pc' = "loop"
    /\ UNCHANGED <<is_dir, entries, git_base_ref, idx, cur, stage, errors,
                   checks_run, successes, failures, return_code, exception,
                   other_vars>>

\* if child.suffix != ".xml": ... continue
SkipEntry ==
    /\ pc = "loop" /\ idx < Len(entries) /\ ~entries[idx + 1]
    /\ idx' = idx + 1
    /\ UNCHANGED <<is_dir, entries, git_base_ref, cur, stage, errors, checks_run,
                   successes, failures, pc, return_code, exception, other_vars>>

\* errors = validate_file(child, git_base_ref=git_base_ref): the call
CallValidateFile ==
    /\ pc = "loop" /\ idx < Len(entries) /\ entries[idx + 1]
    /\ idx' = idx + 1
    /\ cur' \in Files
    /\ stage' = "parse" /\ errors' = <<>> /\ checks_run' = <<>>
    /\ pc' = "validate_file"
    /\ UNCHANGED <<is_dir, entries, git_base_ref, successes, failures, return_code,
                   exception, other_vars>>

file_unchanged == <<is_dir, entries, git_base_ref, idx, cur, successes, failures,
                    return_code, other_vars>>

\* root = etree.parse(open(path))
Parse ==
    /\ pc = "validate_file" /\ stage = "parse"
    /\ IF cur.wellformed
       THEN stage' = "schema" /\ errors' = errors
       ELSE stage' = "returned" /\ errors' = <<[kind |-> "XML syntax"]>>
    /\ UNCHANGED <<checks_run, pc, exception, file_unchanged>>

\* validate_file without the return of the schema errors.
AfterSchemaNoReturn(schema_errors) == "cross-references"

\* The stage after validator.validate(root), given len(validator.error_log).
AfterSchema(schema_errors) ==
    IF schema_errors > 0 THEN "returned" ELSE "cross-references"

\* if not validator.validate(root): ... return errors
Schema ==
    /\ pc = "validate_file" /\ stage = "schema"
    /\ checks_run' = Append(checks_run, "schema")
    /\ errors' = [n \in 1..cur.schema_errors |-> [kind |-> "Validation", entry |-> n]]
    /\ stage' = AfterSchema(cur.schema_errors)
    /\ UNCHANGED <<pc, exception, file_unchanged>>

\* errors = validate_cross_references(path.name, root)
CrossReferencesOfFile ==
    /\ pc = "validate_file" /\ stage = "cross-references"
    /\ checks_run' = Append(checks_run, "cross-references")
    /\ errors' = validate_cross_references(cur.root)
    /\ stage' = "multilingual"
    /\ UNCHANGED <<pc, exception, file_unchanged>>

\* errors += validate_multilingual_elements(path.name, root)
MultilingualOfFile ==
    /\ pc = "validate_file" /\ stage = "multilingual"
    /\ checks_run' = Append(checks_run, "multilingual")
    /\ errors' = errors \o validate_multilingual_elements(cur.root)
    /\ stage' = "version"
    /\ UNCHANGED <<pc, exception, file_unchanged>>

\* errors += validate_version_number(path, git_base_ref); return errors.
\* An exception of validate_version_number is caught neither by
\* validate_file nor by validate_all_files.
VersionOfFile ==
    /\ pc = "validate_file" /\ stage = "version"
    /\ checks_run' = Append(checks_run, "version")
    /\ LET r == validate_version_number(git_base_ref, cur.git)
       IN IF r.outcome = "raise"
          THEN /\ exception' = r.exc
               /\ stage' = "raised" /\ pc' = "raised"
               /\ errors' = errors
          ELSE /\ errors' = errors \o r.errors
               /\ stage' = "returned"
               /\ UNCHANGED <<pc, exception>>
    /\ UNCHANGED file_unchanged

\* A file with a single error taken for a success.
FailedSeveral(errs) == Len(errs) > 1

\* if errors: (the file is a failure)
Failed(errs) == errs # <<>>

\* if errors: ... failures.append(child) else: successes.append(child)
Classify ==
    /\ pc = "validate_file" /\ stage = "returned"
    /\ IF Failed(errors)
       THEN failures' = Append(failures, idx) /\ successes' = successes
       ELSE successes' = Append(successes, idx) /\ failures' = failures
    /\ pc' = "loop" /\ stage' = "none"
    /\ cur' = NoFile /\ errors' = <<>> /\ checks_run' = <<>>
    /\ UNCHANGED <<is_dir, entries, git_base_ref, idx, return_code, exception,
                   other_vars>>

\* if failures: ... return 1 else: ... return 0
ReturnCode(fails) == IF fails # <<>> THEN 1 ELSE 0

Finish ==
    /\ pc = "loop" /\ idx = Len(entries)
    /\ return_code' = ReturnCode(failures)
    /\ pc' = "done"
    /\ UNCHANGED <<is_dir, entries, git_base_ref, idx, cur, stage, errors,
                   checks_run, successes, failures, exception, other_vars>>

Next ==
    \/ NotADirectory
    \/ EnterLoop
    \/ SkipEntry
    \/ CallValidateFile
    \/ Parse
    \/ Schema
    \/ CrossReferencesOfFile
    \/ MultilingualOfFile
    \/ VersionOfFile
    \/ Classify
    \/ Finish

Spec == Init /\ [][Next]_vars

(***************************************************************************)
(* Properties of the multilingual checker.                                 *)
(***************************************************************************)
\* The positions in a list of errors of those with this message (and value).
WithMessage(errs, message) == {n \in 1..Len(errs) : errs[n].message = message}
WithValue(errs, message, value) ==
    {n \in WithMessage(errs, message) : errs[n].value = value}

\* The children tagged `language`; the languages of a <languages> element.
Tagged(children, language) == {k \in 1..Len(children) : children[k] = language}
Declared(languages_element) ==
    IF languages_element.present
    THEN {languages_element.language[i] : i \in 1..Len(languages_element.language)}
    ELSE {}

MultilingualChecked ==
    /\ ml_result.outcome = "return"
    /\ ~(ml_optional /\ ml_children = <<>>)

\* C3: with a non-empty declared language set L, a node with exactly one
\* tagged child per language of L and no other child yields no error; every
\* omitted language of L yields exactly one missing-translation error; a
\* tag that occurs several times yields one duplicate error for each repeat
\* occurrence and none for the first.
C3_DeclaredLanguages ==
    (MultilingualChecked /\ Declared(ml_languages_element) # {}) =>
        LET L == Declared(ml_languages_element)
            errs == ml_result.errors
        IN /\ ( /\ \A l \in L : Cardinality(Tagged(ml_children, l)) = 1
                /\ \A k \in 1..Len(ml_children) : ml_children[k] \in L )
              => errs = <<>>
           /\ \A l \in L :
                Cardinality(WithValue(errs, "no-translation", l))
                    = (IF Tagged(ml_children, l) = {} THEN 1 ELSE 0)
           /\ \A l \in L :
                {errs[n].at.k : n \in WithValue(errs, "lang-found-multiple-times", l)}
                    = {k \in Tagged(ml_children, l) :
                          \E k0 \in Tagged(ml_children, l) : k0 < k}
           /\ \A l \in L :
                Cardinality(WithValue(errs, "lang-found-multiple-times", l))
                    = (IF Tagged(ml_children, l) = {} THEN 0
                       ELSE Cardinality(Tagged(ml_children, l)) - 1)

\* The same, for a <languages> element that declares no language twice.
DistinctLanguages ==
    Cardinality(Declared(ml_languages_element)) = Len(ml_languages_element.language)
C3_DistinctDeclaredLanguages ==
    (ml_languages_element.present /\ ~DistinctLanguages) \/ C3_DeclaredLanguages

\* C4: with zero declared languages (no <languages> element, or an empty
\* one), a node with exactly one untagged child of a required kind yields no
\* error, a node with two or more children yields a "multiple elements"
\* error, and every child that carries a language tag yields a "no
\* languages declared" error.
C4_NoLanguages ==
    (MultilingualChecked /\ ~ml_optional /\ Declared(ml_languages_element) = {}) =>
        LET errs == ml_result.errors
        IN /\ (Len(ml_children) = 1 /\ ~Truthy(ml_children[1])) => errs = <<>>
           /\ Len(ml_children) >= 2 => WithMessage(errs, "multiple-but-no-languages") # {}
           /\ \A k \in 1..Len(ml_children) :
                Truthy(ml_children[k]) =>
                    \E n \in WithMessage(errs, "lang-but-no-languages") :
                        errs[n].at.k = k

\* The same, for a document without a <languages> element.
C4_NoLanguagesElement ==
    ml_languages_element.present \/ C4_NoLanguages

\* C10: for a required kind there is no error only if the node has exactly
\* one untagged child, or exactly one child for every declared language; a
\* node without children of a required kind is reported, with and without
\* declared languages.
C10_RequiredKind ==
    (ml_result.outcome = "return" /\ ~ml_optional) =>
        /\ ml_result.errors = <<>> =>
              \/ Len(ml_children) = 1 /\ ~Truthy(ml_children[1])
              \/ /\ ml_languages_element.present
                 /\ \A l \in Declared(ml_languages_element) :
                       Cardinality(Tagged(ml_children, l)) = 1
        /\ ml_children = <<>> => ml_result.errors # <<>>

(***************************************************************************)
(* Properties of the cross-reference checker.                              *)
(***************************************************************************)
\* The errors reported for the attribute of the element at a position.
ReportedAt(errs, at, attribute) ==
    {n \in 1..Len(errs) : errs[n].at = at /\ errs[n].what = attribute}

\* The refs of the custom period types and of the speech types of a document.
CustomPeriodRefs(root) ==
    IF root.period_types.present
    THEN {root.period_types.period_type[i].ref :
             i \in 1..Len(root.period_types.period_type)}
    ELSE {}
DeclaredSpeechTypeRefs(root) ==
    {root.speech_types[i].ref : i \in 1..Len(root.speech_types)}

ValidPeriods(root) ==
    {"normal", "pois-allowed", "warning", "overtime", None} \cup CustomPeriodRefs(root)

\* The element is reported once, by an error that names the value, if the
\* value is not among the valid ones, and not at all if it is.
ReportedIffUnknown(errs, at, attribute, value, valid) ==
    IF value \in valid
    THEN ReportedAt(errs, at, attribute) = {}
    ELSE /\ Cardinality(ReportedAt(errs, at, attribute)) = 1
         /\ \A n \in ReportedAt(errs, at, attribute) :
               errs[n].kind = "Cross-ref" /\ errs[n].value = value

\* C5: a first-period or next-period that is a built-in period type, unset
\* or the ref of a custom period type of the document is not reported; any
\* other value is reported by exactly one cross-reference error that names
\* it, for every such element of the document.
C5_PeriodReferences ==
    xr_result.outcome = "return" =>
        \A i \in 1..Len(xr_root.speech_types) :
            /\ ReportedIffUnknown(xr_result.errors, Pos("speech-type", i, 0),
                   "first-period", xr_root.speech_types[i].first_period,
                   ValidPeriods(xr_root))
            /\ \A j \in 1..Len(xr_root.speech_types[i].bell) :
                   ReportedIffUnknown(xr_result.errors, Pos("bell", i, j),
                       "next-period", xr_root.speech_types[i].bell[j],
                       ValidPeriods(xr_root))

\* A speech type with an unknown first-period and a bell with an unknown
\* next-period, in a document with a custom period type: both are reported.
C5_Witness ==
    /\ xr_result.outcome = "return"
    /\ CustomPeriodRefs(xr_root) # {}
    /\ \E i \in 1..Len(xr_root.speech_types) :
          /\ xr_root.speech_types[i].first_period \notin ValidPeriods(xr_root)
          /\ \E j \in 1..Len(xr_root.speech_types[i].bell) :
                xr_root.speech_types[i].bell[j] \notin ValidPeriods(xr_root)
    /\ Len(xr_result.errors) >= 2

\* C6: a speech whose type is the ref of a speech type of the document is
\* not reported; any other speech (its type unset, or the name of a period
\* type) is reported by a cross-reference error.
C6_SpeechTypeReferences ==
    xr_result.outcome = "return" =>
        \A i \in 1..Len(xr_root.speeches) :
            ReportedIffUnknown(xr_result.errors, Pos("speech", i, 0), "type",
                xr_root.speeches[i].type, DeclaredSpeechTypeRefs(xr_root))

\* A speech whose type is the ref of a custom period type, reported.
C6_Witness ==
    /\ xr_result.outcome = "return"
    /\ \E i \in 1..Len(xr_root.speeches) :
          /\ xr_root.speeches[i].type \in CustomPeriodRefs(xr_root)
          /\ xr_root.speeches[i].type \notin DeclaredSpeechTypeRefs(xr_root)
          /\ ReportedAt(xr_result.errors, Pos("speech", i, 0), "type") # {}

(***************************************************************************)
(* Properties of the version checker.                                      *)
(***************************************************************************)
\* The file changed since the base revision and its version is an integer.
ChangedFile ==
    /\ Truthy(vn_base_ref)
    /\ vn_git.diff = "changed"
    /\ vn_git.new_version.int

\* C7: without a base revision, and for an unchanged file, there is no
\* error; for a changed file of version n whose base revision has version m
\* there is no error if n > m, and otherwise exactly one error that states
\* the expected minimum m + 1 and the found value n.
C7_VersionIncrease ==
    vn_result # Pending =>
        /\ ~Truthy(vn_base_ref) => vn_result = Return(<<>>)
        /\ (Truthy(vn_base_ref) /\ vn_git.diff = "unchanged") => vn_result = Return(<<>>)
        /\ (ChangedFile /\ vn_git.show.ok /\ vn_git.show.version.int) =>
              LET n == vn_git.new_version.val
                  m == vn_git.show.version.val
              IN IF n > m THEN vn_result = Return(<<>>)
                 ELSE /\ vn_result.outcome = "return"
                      /\ Len(vn_result.errors) = 1
                      /\ vn_result.errors[1].kind = "Version"
                      /\ vn_result.errors[1].expected = m + 1
                      /\ vn_result.errors[1].found = n

\* A changed file whose version is the base revision's: one error.
C7_Witness ==
    /\ ChangedFile /\ vn_git.show.ok /\ vn_git.show.version.int
    /\ vn_git.new_version.val = vn_git.show.version.val
    /\ vn_result.outcome = "return"
    /\ Len(vn_result.errors) = 1

\* C8: for a changed file, every failure to get the base revision's version
\* (no such file at that revision, content that cannot be parsed, no
\* version or a version that is no integer) gives exactly one error, and no
\* exception leaves the checker.
C8_OriginalVersionFailure ==
    (vn_result # Pending /\ ChangedFile
        /\ (~vn_git.show.ok \/ ~vn_git.show.version.int)) =>
        /\ vn_result.outcome = "return"
        /\ Len(vn_result.errors) = 1

(***************************************************************************)
(* Properties of validate_file and validate_all_files.                     *)
(***************************************************************************)
AllChecks == <<"schema", "cross-references", "multilingual", "version">>
SemanticChecks == {"cross-references", "multilingual", "version"}
Started(check) == InList(check, checks_run)

\* C1: whatever happens to one file, its validation ends with a list of
\* errors and the loop goes on: no exception leaves validate_all_files, and
\* when it returns for a directory it has taken every entry.
C1_NoFileAbortsBatch ==
    /\ exception = None
    /\ pc # "raised"
    /\ (pc = "done" /\ is_dir) => idx = Len(entries)

\* C2: the schema check is the first check of a file; a file that cannot be
\* parsed gives exactly one syntax error and a file that fails the schema
\* check gives the schema errors alone, without any semantic check having
\* started; a file that passes the schema check has the cross-reference,
\* multilingual and version checks run in this order and their errors
\* concatenated.
C2_SchemaFirst ==
    /\ checks_run = SubSeq(AllChecks, 1, Len(checks_run))
    /\ (\E c \in SemanticChecks : Started(c)) =>
          (cur.wellformed /\ cur.schema_errors = 0)
    /\ stage = "returned" =>
          IF ~cur.wellformed
          THEN errors = <<[kind |-> "XML syntax"]>> /\ checks_run = <<>>
          ELSE IF cur.schema_errors > 0
          THEN /\ checks_run = <<"schema">>
               /\ Len(errors) = cur.schema_errors
               /\ \A n \in 1..Len(errors) : errors[n].kind = "Validation"
          ELSE /\ checks_run = AllChecks
               /\ validate_version_number(git_base_ref, cur.git).outcome = "return"
               /\ errors = validate_cross_references(cur.root)
                           \o validate_multilingual_elements(cur.root)
                           \o validate_version_number(git_base_ref, cur.git).errors

\* A file that passed the schema check, returned with an error of each of
\* the three semantic checks, in their order.
C2_Witness ==
    /\ stage = "returned" /\ cur.wellformed /\ cur.schema_errors = 0
    /\ Len(errors) >= 3
    /\ errors[1].kind = "Cross-ref"
    /\ errors[Len(errors)].kind = "Version"
    /\ \E n \in 2..(Len(errors) - 1) : errors[n].kind = "Multilingual"

\* The entries of a list, and the .xml entries of the directory.
Range(list) == {list[n] : n \in 1..Len(list)}
XmlEntries == {i \in 1..Len(entries) : entries[i]}

C9_Returned ==
    pc = "done" =>
        /\ return_code \in {0, 1}
        /\ return_code = 1 <=> (~is_dir \/ failures # <<>>)
        /\ is_dir =>
              /\ Range(successes) \cap Range(failures) = {}
              /\ Range(successes) \cup Range(failures) = XmlEntries
              /\ Len(successes) + Len(failures) = Cardinality(XmlEntries)

C9_Classified ==
    (stage = "returned" /\ stage' # "returned") =>
        IF errors = <<>>
        THEN successes' = Append(successes, idx) /\ failures' = failures
        ELSE failures' = Append(failures, idx) /\ successes' = successes

\* C9: a file without errors becomes a success and a file with any error
\* a failure; when validate_all_files returns, every .xml entry is in
\* exactly one of the two lists and no other entry is in either, and the
\* result is 1 exactly if the path is no directory or a file failed, and 0
\* otherwise.
C9_SuccessOrFailure == []C9_Returned /\ [][C9_Classified]_vars

\* A directory with a success, a failure and an entry that is skipped.
C9_Witness ==
    /\ pc = "done" /\ is_dir
    /\ successes # <<>> /\ failures # <<>>
    /\ Cardinality(XmlEntries) < Len(entries)
    /\ return_code = 1

====
